---- MODULE Spec2Model ----
(***************************************************************************)
(* A state-machine model of GPModel (yangkky/GPModel):                     *)
(*   - the Newton mode-finding loops GPClassifier._find_F and              *)
(*     GPMultiClassifier._find_F            (specification SpecFindF),      *)
(*   - GPRegressor / GPClassifier fit and predict (specification SpecFit), *)
(*   - the HammingKernel and StructureKernel of gpkernel.py                *)
(*                        (specifications SpecStructure, SpecHamming),     *)
(*   - construction of the four model classes (specification             *)
(*     SpecConstruct), followed by fit, score, dump and load               *)
(*     (specification SpecApi), and fit, predict and score of              *)
(*     LassoGPRegressor next to the other two (specification SpecUse).     *)
(* Linear algebra is abstracted to the hyperparameter vector a cached      *)
(* quantity was computed at; control flow, guards, raised errors and       *)
(* attribute writes follow the source line by line.                        *)
(***************************************************************************)
EXTENDS Integers, Sequences, FiniteSets, TLC

VARIABLES
    \* ---- _find_F (binary and multi-class) ----
    ff_kind,      \* "binary" (GPClassifier) or "multi" (GPMultiClassifier)
    ff_i,         \* number of loop iterations completed
    n_below,      \* the loop's n_below counter
    ff_status,    \* "running" | "returned" | "raised"
    ff_ret,       \* what was returned: "none" | "f_new" | "f_hat"
    ff_streak,    \* history: length of the trailing run of below-tolerance outcomes
    ff_ever10,    \* history: some iteration completed ten consecutive below-tolerance outcomes
    \* ---- GPRegressor / GPClassifier ----
    m,            \* the model object: its attributes (see NewModel)
    last,         \* history: the last call made on the model, its inputs and outcome
    \* ---- gpkernel.py ----
    saved_seqs,   \* HammingKernel.saved_seqs: key -> string
    contact_terms,\* StructureKernel.contact_terms: list of ((pos1,aa1),(pos2,aa2))
    contacts,     \* StructureKernel.contacts: key -> list of contact terms
    k_last        \* history: the last kernel call, its inputs and outcome

ffvars == <<ff_kind, ff_i, n_below, ff_status, ff_ret, ff_streak, ff_ever10>>

mvars == <<m, last>>

kvars == <<saved_seqs, contact_terms, contacts, k_last>>

vars == <<ff_kind, ff_i, n_below, ff_status, ff_ret, ff_streak, ff_ever10, m, last,
          saved_seqs, contact_terms, contacts, k_last>>

(***************************************************************************)
(* _find_F: the convergence loop                                           *)
(***************************************************************************)

\* evals=1000, the default iteration budget of both _find_F methods
Evals == 1000

\* the literal 9 of "if n_below > 9"
NBelowLimit == 9

\* the run length the criterion asks for (ten consecutive iterations)
RunLength == NBelowLimit + 1

\* n_below with the reset dropped: a below-tolerance iteration counts, any other
\* leaves the count as it is
NBelowNextNoReset(n, below) == IF below THEN n + 1 ELSE n

\* lines 568-571 (binary) and 695-698 (multi): count or restart
NBelowNext(n, below) == IF below THEN n + 1 ELSE 0

\* lines 572 and 699: "if n_below > 9"
Converged(n) == n > NBelowLimit

InitFindF ==
    /\ ff_kind \in {"binary", "multi"}
    /\ ff_i = 0
    /\ n_below = 0
    /\ ff_status = "running"
    /\ ff_ret = "none"
    /\ ff_streak = 0
    /\ ff_ever10 = FALSE

\* One iteration of GPClassifier._find_F's loop, with the loop's exit: return f_new
\* when n_below > 9, raise RuntimeError when range(evals) is exhausted.
BinaryIter(below) ==
    /\ ff_kind = "binary"
    /\ ff_status = "running"
    /\ ff_i < Evals
    /\ ff_i' = ff_i + 1
    /\ n_below' = NBelowNext(n_below, below)
    /\ ff_streak' = IF below THEN ff_streak + 1 ELSE 0
    /\ ff_ever10' = (ff_ever10 \/ ff_streak' >= RunLength)
    /\ IF Converged(n_below')
         THEN ff_status' = "returned" /\ ff_ret' = "f_new"
         ELSE IF ff_i' = Evals
                THEN ff_status' = "raised" /\ ff_ret' = "none"
                ELSE ff_status' = "running" /\ ff_ret' = "none"
    /\ UNCHANGED <<ff_kind, mvars, kvars>>

\* One iteration of GPMultiClassifier._find_F's loop, with the loop's exit: break
\* when n_below > 9, fall out of range(evals) otherwise; both reach "return f_hat".
MultiIter(below) ==
    /\ ff_kind = "multi"
    /\ ff_status = "running"
    /\ ff_i < Evals
    /\ ff_i' = ff_i + 1
    /\ n_below' = NBelowNext(n_below, below)
    /\ ff_streak' = IF below THEN ff_streak + 1 ELSE 0
    /\ ff_ever10' = (ff_ever10 \/ ff_streak' >= RunLength)
    /\ IF Converged(n_below') \/ ff_i' = Evals
         THEN ff_status' = "returned" /\ ff_ret' = "f_hat"
         ELSE ff_status' = "running" /\ ff_ret' = "none"
    /\ UNCHANGED <<ff_kind, mvars, kvars>>

NextFindF ==
    \/ \E below \in BOOLEAN : BinaryIter(below)
    \/ \E below \in BOOLEAN : MultiIter(below)

(***************************************************************************)
(* GPRegressor and GPClassifier: construction, fit, predict                *)
(***************************************************************************)

\* largest training set drawn (training sets have MaxN - 1 or MaxN points)
MaxN == 3

\* largest hyperparameter count a kernel reports from kernel.fit(X)
MaxKernelHypers == 2

\* most points the optimiser evaluates in one fit
MaxEvals == 2

\* the initial guess 0.9 of "guesses = [0.9 for _ in range(self._n_hypers)]"
DefaultGuess == "0.9"

\* the hyperparameter values the optimiser moves between
HyperVals == {DefaultGuess, "0.5"}

\* Python's None is the empty option, a value v is <<v>>
None == <<>>
Some(v) == <<v>>

\* the errors the source raises
ErrNone == "none"
ErrVarLen == "ValueError: len(variances must match len(Y))"
ErrBroadcast == "ValueError: operands could not be broadcast together"
ErrGuesses == "AttributeError: Length of guesses does not match number of hyperparameters"
ErrNoConv == "RuntimeError: Maximum evaluations reached without convergence."
ErrLabels == "RuntimeError: All values in Y must be -1 or 1"
ErrNoAttr == "AttributeError: object has no attribute"

\* vectors of length n over a set
Vectors(n, S) == [1..n -> S]

\* a training target vector of n points; bad > 0 puts a value outside {-1, +1} there
TrainY(n, bad) ==
    [k \in 1..n |-> IF k = bad THEN 0 ELSE IF k % 2 = 1 THEN 1 ELSE -1]

TrainYs == {TrainY(n, bad) : n \in (MaxN - 1)..MaxN, bad \in {0, 1}}

\* per-point variances as the caller supplies them: absent, or all zero, of any length
VarianceInputs == {None} \cup {Some([k \in 1..n |-> 0]) : n \in 1..MaxN}

\* caller-supplied guesses: absent, or a vector of any length up to the largest count
GuessInputs ==
    {None} \cup {Some([k \in 1..n |-> DefaultGuess]) : n \in 1..(MaxKernelHypers + 1)}

\* the default of kwargs.get('gamma', 0), line 755
DefaultGamma == "0"

\* __init__ of GPRegressor (lines 97-107), GPClassifier (lines 353-357),
\* GPMultiClassifier (lines 637-641) and LassoGPRegressor (lines 754-759): the
\* attributes the constructor sets; every other attribute is absent until fit.
NewModel(cls, objective, guesses, kernel_n) ==
    [ cls       |-> cls,
      objective |-> objective,        \* the bound method self.objective
      guesses   |-> guesses,          \* self.guesses
      kernel_n  |-> kernel_n,         \* what self.kernel.fit(X) returns
      has       |-> CASE cls = "GPRegressor" ->
                           {"kernel", "guesses", "mean_func", "variances", "objective"}
                      [] cls = "LassoGPRegressor" ->
                           {"kernel", "guesses", "mean_func", "variances", "objective",
                            "_gamma_0", "_clf"}
                      [] cls = "GPMultiClassifier" -> {"_kernels", "guesses", "objective"}
                      [] OTHER -> {"kernel", "guesses", "objective"},
      gamma_0   |-> DefaultGamma,     \* self._gamma_0 (LassoGPRegressor)
      gamma     |-> None,             \* self.gamma
      mask_at   |-> None,             \* the gamma self._mask was selected at
      fit_g     |-> None,             \* the gamma whose restricted X was last fitted
      Y         |-> <<>>,             \* self.Y
      n_hypers  |-> 0,                \* self._n_hypers
      variances |-> None,             \* self.variances
      hypers    |-> <<>>,             \* self.hypers
      K_h       |-> <<>>,             \* the hypers self._K was built from by kernel.cov
      K_at      |-> <<>>,             \* the objective's argument when self._K was set
      cache_at  |-> <<>>,             \* ... when _Ky,_L,_p,_alpha / _W_root,_L,_p,_grad were set
      ML_at     |-> <<>> ]            \* ... when self.ML was set

NoCall ==
    [ op |-> "init", err |-> ErrNone, var_in |-> None, x0 |-> None,
      newton |-> FALSE, factor |-> FALSE, p_h |-> None,
      args |-> <<>>, ret |-> None ]

InitFit ==
    /\ \E cls \in {"GPRegressor", "GPClassifier"} :
       \E objective \in {"_log_ML", "_LOO_log_p"} :
       \E guesses \in GuessInputs :
       \E kernel_n \in 1..MaxKernelHypers :
          /\ cls = "GPClassifier" => objective = "_log_ML"
          /\ m = NewModel(cls, objective, guesses, kernel_n)
    /\ last = NoCall

\* lines 139-145 (GPRegressor.fit) and 373-376 (GPClassifier.fit): the attributes
\* written before any check
FitPrefix(mm, Y) ==
    [mm EXCEPT !.Y = Y,
               !.n_hypers = mm.kernel_n,
               !.has = @ \cup (IF mm.cls \in {"GPRegressor", "LassoGPRegressor"}
                                 THEN {"X", "Y", "_ell", "_n_hypers", "mean", "std", "normed_Y"}
                                 ELSE {"X", "Y", "_ell", "_n_hypers"})]

\* line 147: "if not len(variances) != len(Y)"
VariancesRejected(variances, Y) == ~(Len(variances) # Len(Y))

\* line 149: variances / self.std**2, elementwise
ScaleVariances(variances) == [k \in 1..Len(variances) |-> variances[k]]

\* lines 153-156: the vector the optimiser starts from
StartVector(mm) ==
    IF mm.guesses = None
      THEN [k \in 1..mm.n_hypers |-> DefaultGuess]
      ELSE mm.guesses[1]

\* line 157 / 381: "if len(guesses) != self._n_hypers"
GuessesRejected(mm) ==
    mm.guesses # None /\ Len(mm.guesses[1]) # mm.n_hypers

\* GPRegressor._make_Ks, lines 172-180: the hypers kernel.cov is given
MakeKsHypers(mm, hypers) ==
    IF mm.variances # None THEN hypers ELSE Tail(hypers)

\* line 176: K (n x n) + np.diag(variances) (v x v) broadcasts only for v = n or v = 1
MakeKsBroadcasts(mm) ==
    mm.variances # None =>
        (Len(mm.variances[1]) = Len(mm.Y) \/ Len(mm.variances[1]) = 1)

\* GPRegressor._log_ML, lines 248-257: every cached quantity is rewritten at hypers
RegLogML(mm, hypers) ==
    [mm EXCEPT !.K_h = MakeKsHypers(mm, hypers),
               !.K_at = hypers,
               !.cache_at = hypers,
               !.ML_at = hypers,
               !.has = @ \cup {"_K", "_Ky", "_L", "_p", "_alpha", "ML"}]

\* GPRegressor._LOO_log_p / LOO_res, lines 259-302: K and Ky are locals, no attribute
\* is written
RegLOO(mm, hypers) == mm

\* one call of self.objective by the optimiser
RegObjective(mm, hypers) ==
    IF mm.objective = "_log_ML" THEN RegLogML(mm, hypers) ELSE RegLOO(mm, hypers)

\* the optimiser's calls of the objective, in order
RECURSIVE RegEvaluate(_, _)
RegEvaluate(mm, points) ==
    IF points = <<>> THEN mm
    ELSE RegEvaluate(RegObjective(mm, Head(points)), Tail(points))

\* lines 166-170: store the optimiser's result, then evaluate the objective that was
\* not optimised at it
RegFinish(mm, x) ==
    LET m1 == [mm EXCEPT !.hypers = x, !.has = @ \cup {"hypers"}]
    IN  IF mm.objective = "_log_ML"
          THEN [RegLOO(m1, x) EXCEPT !.has = @ \cup {"log_p"}]
          ELSE RegLogML(m1, x)

\* the sequences of points an optimiser run started at x0 can evaluate
EvalSeqs(x0) ==
    {s \in UNION {[1..k -> Vectors(Len(x0), HyperVals)] : k \in 1..MaxEvals} : s[1] = x0}

\* GPRegressor.fit, lines 135-170. The optimiser evaluates the points of evals in
\* order and returns one of them, evals[ret].
RegFit(Y, variances) ==
    /\ m.cls = "GPRegressor"
    /\ LET m1 == FitPrefix(m, Y)
           call == [NoCall EXCEPT !.op = "fit", !.var_in = variances]
       IN  IF variances # None /\ VariancesRejected(variances[1], Y)
             THEN /\ m' = m1
                  /\ last' = [call EXCEPT !.err = ErrVarLen]
             ELSE
               LET m2 == IF variances # None
                           THEN [m1 EXCEPT !.variances = Some(ScaleVariances(variances[1]))]
                           ELSE [m1 EXCEPT !.variances = None, !.n_hypers = @ + 1]
               IN  IF GuessesRejected(m2)
                     THEN /\ m' = m2
                          /\ last' = [call EXCEPT !.err = ErrGuesses]
                     ELSE
                       LET x0 == StartVector(m2)
                       IN  IF ~MakeKsBroadcasts(m2)
                             THEN /\ m' = m2
                                  /\ last' = [call EXCEPT !.err = ErrBroadcast,
                                                          !.x0 = Some(x0)]
                             ELSE \E evals \in EvalSeqs(x0) : \E ret \in 1..Len(evals) :
                                  /\ m' = RegFinish(RegEvaluate(m2, evals), evals[ret])
                                  /\ last' = [call EXCEPT !.x0 = Some(x0),
                                                          !.factor = TRUE]
    /\ UNCHANGED <<ffvars, kvars>>

\* GPRegressor.predict, lines 221-235: h = self.hypers[1::] goes to kernel.cov
PredictHypers(mm) == Tail(mm.hypers)

\* predict that re-evaluates the objective at the stored hypers before predicting
RegPredictRefreshing ==
    /\ m.cls = "GPRegressor"
    /\ IF {"hypers", "X", "_alpha", "_L", "_p", "mean", "std"} \subseteq m.has
         THEN /\ last' = [NoCall EXCEPT !.op = "predict", !.p_h = Some(PredictHypers(m))]
              /\ m' = RegLogML(m, PredictHypers(m))
         ELSE /\ last' = [NoCall EXCEPT !.op = "predict", !.err = ErrNoAttr]
              /\ m' = m
    /\ UNCHANGED <<ffvars, kvars>>

RegPredict ==
    /\ m.cls = "GPRegressor"
    /\ IF {"hypers", "X", "_alpha", "_L", "_p", "mean", "std"} \subseteq m.has
         THEN last' = [NoCall EXCEPT !.op = "predict", !.p_h = Some(PredictHypers(m))]
         ELSE last' = [NoCall EXCEPT !.op = "predict", !.err = ErrNoAttr]
    /\ UNCHANGED <<m, ffvars, kvars>>

\* GPClassifier._logistic_likelihood, line 476: every label is 1 or -1
ValidLabels(Y) == \A k \in 1..Len(Y) : Y[k] = 1 \/ Y[k] = -1

\* GPClassifier._log_ML, lines 456-458, at the point hypers. _find_F (lines 543-575)
\* sets self._K and runs its Newton loop, which factorizes in every iteration and
\* reads self.Y only through _grad_log_logistic_likelihood, which checks no label;
\* converged says whether the loop returned. _logq (lines 591-607) then sets
\* _W, _W_root, _L, _p, _grad and only then evaluates the likelihood of self.Y,
\* where the labels are checked.
ClfLogML(mm, hypers, converged) ==
    LET m1 == [mm EXCEPT !.K_h = hypers, !.K_at = hypers, !.has = @ \cup {"_K"}]
        m2 == [m1 EXCEPT !.cache_at = hypers,
                         !.has = @ \cup {"_W", "_W_root", "_L", "_p", "_grad"}]
        m3 == [m2 EXCEPT !.ML_at = hypers, !.has = @ \cup {"ML"}]
    IN  IF ~converged THEN [m |-> m1, err |-> ErrNoConv]
        ELSE IF ~ValidLabels(mm.Y) THEN [m |-> m2, err |-> ErrLabels]
        ELSE [m |-> m3, err |-> ErrNone]

\* the optimiser's calls of the objective, in order; the first that raises ends the
\* fit. fail_at is the index of the evaluation whose _find_F does not converge
\* (0: all converge).
RECURSIVE ClfEvaluate(_, _, _, _)
ClfEvaluate(mm, points, k, fail_at) ==
    IF k > Len(points) THEN [m |-> mm, err |-> ErrNone]
    ELSE LET r == ClfLogML(mm, points[k], k # fail_at)
         IN  IF r.err # ErrNone THEN r
             ELSE ClfEvaluate(r.m, points, k + 1, fail_at)

\* GPClassifier.fit, lines 369-389
ClfFit(Y) ==
    /\ m.cls = "GPClassifier"
    /\ LET m1 == FitPrefix(m, Y)
           call == [NoCall EXCEPT !.op = "fit"]
       IN  IF GuessesRejected(m1)
             THEN /\ m' = m1
                  /\ last' = [call EXCEPT !.err = ErrGuesses]
             ELSE
               LET x0 == StartVector(m1)
               IN  \E evals \in EvalSeqs(x0) : \E ret \in 1..Len(evals) :
                   \E fail_at \in {0, Len(evals)} :
                      LET r == ClfEvaluate(m1, evals, 1, fail_at)
                      IN  /\ r.err = ErrNone => fail_at = 0
                          /\ r.err # ErrNone => ret = 1
                          /\ m' = IF r.err = ErrNone
                                    THEN [r.m EXCEPT !.hypers = evals[ret],
                                                     !.has = @ \cup {"hypers"}]
                                    ELSE r.m
                          /\ last' = [call EXCEPT !.err = r.err, !.x0 = Some(x0),
                                                  !.newton = TRUE, !.factor = TRUE]
    /\ UNCHANGED <<ffvars, kvars>>

\* GPClassifier.predict, lines 401-422: the attributes it reads, in order, and the
\* hypers kernel.cov is given
ClfPredict ==
    /\ m.cls = "GPClassifier"
    /\ IF {"hypers", "X", "_grad", "_W_root", "_L", "_p", "variances"} \subseteq m.has
         THEN last' = [NoCall EXCEPT !.op = "predict", !.p_h = Some(m.hypers)]
         ELSE last' = [NoCall EXCEPT !.op = "predict", !.err = ErrNoAttr]
    /\ UNCHANGED <<m, ffvars, kvars>>

(***************************************************************************)
(* Construction with keyword arguments                                     *)
(***************************************************************************)

ErrObjective == "AttributeError: is not a valid objective"

\* no object: the name a failed constructor call would have bound
NoModel == [cls |-> "none"]

\* the objective names a caller passes: the two the code knows and one it does not
ObjectiveNames == {"log_ML", "LOO_log_p", "R2"}

\* the 'objective' entry of **kwargs: absent, None, or a name
ObjectiveArgs == {None, Some(None)} \cup {Some(Some(n)) : n \in ObjectiveNames}

\* the gamma values LassoGPRegressor is constructed with and its optimiser evaluates
GammaVals == {DefaultGamma, "1"}

\* the 'gamma' entry of **kwargs: absent, or a value
GammaArgs == {None} \cup {Some(g) : g \in GammaVals}

\* lines 100-101: an absent 'objective' becomes 'log_ML'
KwargsObjective(kw) == IF kw = None THEN Some("log_ML") ELSE kw[1]

\* _set_objective with the final else falling back to _log_ML (as load does)
SetObjectiveDefaulting(objective) ==
    IF objective # None /\ objective[1] = "LOO_log_p"
      THEN [err |-> ErrNone, objective |-> "_LOO_log_p"]
      ELSE [err |-> ErrNone, objective |-> "_log_ML"]

\* GPRegressor._set_objective, lines 109-119
SetObjective(objective) ==
    IF objective # None
      THEN IF objective[1] = "log_ML"
             THEN [err |-> ErrNone, objective |-> "_log_ML"]
             ELSE IF objective[1] = "LOO_log_p"
                    THEN [err |-> ErrNone, objective |-> "_LOO_log_p"]
                    ELSE [err |-> ErrObjective, objective |-> "none"]
      ELSE [err |-> ErrNone, objective |-> "_log_ML"]

\* GPRegressor.__init__, lines 97-107, and LassoGPRegressor.__init__, lines 754-759
\* (which reads kwargs 'gamma' into _gamma_0 and leaves it in kwargs, so that
\* _set_params also sets self.gamma)
NewRegressor(cls, kw_objective, guesses, kernel_n, kw_gamma) ==
    LET r == SetObjective(KwargsObjective(kw_objective))
        base == NewModel(cls, r.objective, guesses, kernel_n)
    IN  IF r.err # ErrNone THEN [err |-> r.err, m |-> NoModel]
        ELSE IF cls = "LassoGPRegressor" /\ kw_gamma # None
               THEN [err |-> ErrNone,
                     m |-> [base EXCEPT !.gamma_0 = kw_gamma[1], !.gamma = kw_gamma,
                                        !.has = @ \cup {"gamma"}]]
               ELSE [err |-> ErrNone, m |-> base]

\* GPClassifier.__init__, lines 353-357, and GPMultiClassifier.__init__, lines 637-641
NewClassifier(cls, guesses, kernel_n) ==
    [err |-> ErrNone, m |-> NewModel(cls, "_log_ML", guesses, kernel_n)]

\* a constructor call; a raising constructor binds no object
Construct(cls, kw_objective, guesses, kernel_n, kw_gamma) ==
    /\ m = NoModel
    /\ LET r == IF cls \in {"GPRegressor", "LassoGPRegressor"}
                  THEN NewRegressor(cls, kw_objective, guesses, kernel_n, kw_gamma)
                  ELSE NewClassifier(cls, guesses, kernel_n)
       IN  /\ m' = r.m
           /\ last' = [NoCall EXCEPT !.op = "__init__", !.err = r.err,
                                     !.args = <<cls, kw_objective>>]
    /\ UNCHANGED <<ffvars, kvars>>

(***************************************************************************)
(* score                                                                   *)
(***************************************************************************)

\* most metric names given to one score call
MaxMetrics == 2

ErrXY == "ValueError"
ErrMetric == "ValueError: Invalid metric."

\* lines 332-340: the metric names score knows
SupportedMetrics == {"kendalltau", "R2", "R"}

\* the names a caller passes: the supported ones and one that is not
MetricNames == SupportedMetrics \cup {"AUC"}

\* *args of score
MetricLists == UNION {[1..k -> MetricNames] : k \in 0..MaxMetrics}

\* what score returns: a float, or the dict scores; keys are the metrics it holds
Scalar(metric) == [kind |-> "scalar", keys |-> {metric}]
Mapping(keys) == [kind |-> "mapping", keys |-> keys]

\* lines 330-342: scores[t] = ... for each t of args in order; the first unknown
\* name raises. k is the next position, scores the keys of the dict so far.
RECURSIVE ScoreLoop(_, _, _)
ScoreLoop(args, k, scores) ==
    IF k > Len(args) THEN [err |-> ErrNone, scores |-> scores]
    ELSE IF args[k] \in SupportedMetrics
           THEN ScoreLoop(args, k + 1, scores \cup {args[k]})
           ELSE [err |-> ErrMetric, scores |-> scores]

\* GPRegressor.score after the predictions are made, lines 325-346
ScoreResult(args) ==
    IF args = <<>> THEN [err |-> ErrNone, ret |-> Some(Scalar("kendalltau"))]
    ELSE LET r == ScoreLoop(args, 1, {})
         IN  IF r.err # ErrNone THEN [err |-> r.err, ret |-> None]
             ELSE IF Cardinality(r.scores) = 1
                    THEN [err |-> ErrNone, ret |-> Some(Scalar(CHOOSE t \in r.scores : TRUE))]
                    ELSE [err |-> ErrNone, ret |-> Some(Mapping(r.scores))]

\* the attributes GPRegressor.predict reads, lines 221-234
RegPredictReads == {"hypers", "X", "_alpha", "_L", "_p", "mean", "std"}

\* the attributes GPClassifier.predict reads, lines 402-412
ClfPredictReads == {"hypers", "X", "_grad", "_W_root", "_L", "_p", "variances"}

\* self.predict(X) returns (every attribute it reads is set)
CanPredict(mm) ==
    CASE mm.cls = "GPRegressor" -> RegPredictReads \subseteq mm.has
      [] mm.cls = "LassoGPRegressor" -> ({"_mask"} \cup RegPredictReads) \subseteq mm.has
      [] mm.cls = "GPClassifier" -> ClfPredictReads \subseteq mm.has
      [] OTHER -> FALSE

\* GPRegressor.score, lines 319-346 (inherited by LassoGPRegressor); same_len is
\* len(X) == len(Y)
RegScore(args, same_len) ==
    /\ m.cls \in {"GPRegressor", "LassoGPRegressor"}
    /\ LET call == [NoCall EXCEPT !.op = "score"]
       IN  IF ~same_len THEN last' = [call EXCEPT !.err = ErrXY]
           ELSE IF ~CanPredict(m) THEN last' = [call EXCEPT !.err = ErrNoAttr]
           ELSE LET r == ScoreResult(args)
                IN  last' = [call EXCEPT !.args = args, !.err = r.err, !.ret = r.ret]
    /\ UNCHANGED <<m, ffvars, kvars>>

\* GPClassifier.score, lines 622-630
ClfScore(same_len) ==
    /\ m.cls = "GPClassifier"
    /\ LET call == [NoCall EXCEPT !.op = "score"]
       IN  IF ~same_len THEN last' = [call EXCEPT !.err = ErrXY]
           ELSE IF ~CanPredict(m) THEN last' = [call EXCEPT !.err = ErrNoAttr]
           ELSE last' = [call EXCEPT !.ret = Some(Scalar("roc_auc"))]
    /\ UNCHANGED <<m, ffvars, kvars>>

\* LassoGPRegressor.predict, lines 761-763: restrict X by self._mask, then
\* GPRegressor.predict
LassoPredict ==
    /\ m.cls = "LassoGPRegressor"
    /\ IF CanPredict(m)
         THEN last' = [NoCall EXCEPT !.op = "predict", !.p_h = Some(PredictHypers(m))]
         ELSE last' = [NoCall EXCEPT !.op = "predict", !.err = ErrNoAttr]
    /\ UNCHANGED <<m, ffvars, kvars>>

(***************************************************************************)
(* Persistence: dump and load                                              *)
(***************************************************************************)

ErrKey == "KeyError: 'kernel'"

\* GPMultiClassifier.fit, lines 646-650
MultiFit(Y) ==
    /\ m.cls = "GPMultiClassifier"
    /\ m' = [m EXCEPT !.Y = Y, !.n_hypers = m.kernel_n,
                      !.has = @ \cup {"X", "Y", "_n_hypers"}]
    /\ last' = [NoCall EXCEPT !.op = "fit"]
    /\ UNCHANGED <<ffvars, kvars>>

\* list(self.hypers), line 83: the values, in order
ToList(h) == [k \in 1..Len(h) |-> h[k]]

\* BaseGPModel.dump, lines 76-90: the pickled dict. names are its keys (those of
\* __dict__; 'objective' and 'guesses' are among them), objective the symbolic
\* name stored under 'objective', vals the values of the other keys.
DumpFile(mm) ==
    [ names     |-> mm.has \cup {"objective", "guesses"},
      objective |-> IF mm.objective = "_log_ML" THEN "log_ML" ELSE "LOO_log_p",
      vals      |-> IF "hypers" \in mm.has
                      THEN [mm EXCEPT !.hypers = ToList(mm.hypers)]
                      ELSE mm ]

\* BaseGPModel._set_params, lines 43-44: setattr for every key given. Each
\* attribute carries the fields of the model record that describe it.
SetParams(mm, names, vals) ==
    LET pick(name, new, old) == IF name \in names THEN new ELSE old
    IN  [mm EXCEPT !.has       = @ \cup names,
                   !.guesses   = pick("guesses", vals.guesses, @),
                   !.Y         = pick("Y", vals.Y, @),
                   !.n_hypers  = pick("_n_hypers", vals.n_hypers, @),
                   !.variances = pick("variances", vals.variances, @),
                   !.hypers    = pick("hypers", vals.hypers, @),
                   !.K_h       = pick("_K", vals.K_h, @),
                   !.K_at      = pick("_K", vals.K_at, @),
                   !.cache_at  = pick("_L", vals.cache_at, @),
                   !.ML_at     = pick("ML", vals.ML_at, @),
                   !.gamma_0   = pick("_gamma_0", vals.gamma_0, @),
                   !.gamma     = pick("gamma", vals.gamma, @),
                   !.mask_at   = pick("_mask", vals.mask_at, @),
                   !.fit_g     = pick("X", vals.fit_g, @)]

\* BaseGPModel.load, lines 55-65, called on the class cls with the file f:
\* attributes['kernel'] (KeyError when the dict has no such key), cls(kernel),
\* the objective re-bound from its name, the remaining keys set
Load(cls, f) ==
    IF "kernel" \notin f.names THEN [err |-> ErrKey, m |-> NoModel]
    ELSE LET made == IF cls \in {"GPRegressor", "LassoGPRegressor"}
                       THEN NewRegressor(cls, None, None, f.vals.kernel_n, None)
                       ELSE NewClassifier(cls, None, f.vals.kernel_n)
             bound == IF f.objective = "LOO_log_p"
                        THEN [made.m EXCEPT !.objective = "_LOO_log_p"]
                        ELSE [made.m EXCEPT !.objective = "_log_ML"]
         IN  IF f.objective = "LOO_log_p" /\ cls \notin {"GPRegressor", "LassoGPRegressor"}
               THEN [err |-> ErrNoAttr, m |-> NoModel]
               ELSE [err |-> ErrNone,
                     m |-> SetParams(bound, f.names \ {"kernel", "objective"}, f.vals)]

\* m.dump(f)
Dump ==
    /\ m # NoModel
    /\ last' = [NoCall EXCEPT !.op = "dump", !.ret = Some(DumpFile(m))]
    /\ UNCHANGED <<m, ffvars, kvars>>

\* type(m).load(f) on the file the preceding dump wrote
LoadDumped ==
    /\ last.op = "dump"
    /\ LET r == Load(m.cls, last.ret[1])
       IN  last' = [NoCall EXCEPT !.op = "load", !.err = r.err, !.args = last.ret,
                                  !.ret = Some(r.m)]
    /\ UNCHANGED <<m, ffvars, kvars>>

(***************************************************************************)
(* LassoGPRegressor: the outer optimisation over gamma                     *)
(***************************************************************************)

\* most gamma values the outer optimiser evaluates in one fit
MaxGammaEvals == 2

\* GPRegressor.fit, lines 135-170, called on the model mm: every outcome the
\* inner optimiser's evaluated points and returned point allow
GPRegressorFit(mm, Y, variances) ==
    LET m1 == FitPrefix(mm, Y)
    IN  IF variances # None /\ VariancesRejected(variances[1], Y)
          THEN {[m |-> m1, err |-> ErrVarLen]}
          ELSE
            LET m2 == IF variances # None
                        THEN [m1 EXCEPT !.variances = Some(ScaleVariances(variances[1]))]
                        ELSE [m1 EXCEPT !.variances = None, !.n_hypers = @ + 1]
            IN  IF GuessesRejected(m2) THEN {[m |-> m2, err |-> ErrGuesses]}
                ELSE IF ~MakeKsBroadcasts(m2) THEN {[m |-> m2, err |-> ErrBroadcast]}
                ELSE UNION {
                       {[m |-> RegFinish(RegEvaluate(m2, evals), evals[ret]), err |-> ErrNone] :
                            ret \in 1..Len(evals)} :
                       evals \in EvalSeqs(StartVector(m2))}

\* LassoGPRegressor._log_ML_from_gamma, lines 773-776: select the mask at gamma,
\* store it, fit the inner regressor on the restricted X
LogMLFromGamma(mm, gamma, Y, variances) ==
    LET m0 == [mm EXCEPT !.mask_at = Some(gamma), !.has = @ \cup {"_mask"}]
    IN  {[m |-> [r.m EXCEPT !.fit_g = Some(gamma)], err |-> r.err] :
            r \in GPRegressorFit(m0, Y, variances)}

\* the outer optimiser's calls of _log_ML_from_gamma at gammas[k], gammas[k+1], ...
\* in order; the first that raises ends the fit
RECURSIVE LassoEvaluate(_, _, _, _, _)
LassoEvaluate(mm, gammas, k, Y, variances) ==
    IF k > Len(gammas) THEN {[m |-> mm, err |-> ErrNone]}
    ELSE UNION {IF r.err # ErrNone THEN {r}
                ELSE LassoEvaluate(r.m, gammas, k + 1, Y, variances) :
                r \in LogMLFromGamma(mm, gammas[k], Y, variances)}

\* the sequences of gamma values an outer run started at g0 can evaluate
GammaSeqs(g0) ==
    {s \in UNION {[1..k -> GammaVals] : k \in 1..MaxGammaEvals} : s[1] = g0}

\* LassoGPRegressor.fit, lines 765-771. The outer optimiser evaluates gammas in
\* order and returns one of them, gammas[ret], which is stored as self.gamma.
LassoFit(Y, variances) ==
    /\ m.cls = "LassoGPRegressor"
    /\ \E gammas \in GammaSeqs(m.gamma_0) :
       \E r \in LassoEvaluate(m, gammas, 1, Y, variances) :
       \E ret \in 1..Len(gammas) :
          /\ m' = IF r.err = ErrNone
                    THEN [r.m EXCEPT !.gamma = Some(gammas[ret]), !.has = @ \cup {"gamma"}]
                    ELSE r.m
          /\ last' = [NoCall EXCEPT !.op = "fit", !.err = r.err, !.var_in = variances]
    /\ UNCHANGED <<ffvars, kvars>>

(***************************************************************************)
(* gpkernel.py: HammingKernel and StructureKernel (Python 2 source)        *)
(***************************************************************************)

\* length of the sequences given to the HammingKernel
HamLen == 4

\* length of the sequences given to the StructureKernel
SeqLen == 2

\* most rows of a DataFrame given to make_K
MaxRows == 2

\* most rows of a DataFrame given to train
MaxTrainRows == 1

\* most position pairs in the contacts list given to StructureKernel.__init__
MaxContacts == 2

\* largest variance hyperparameter var_p drawn
MaxVar == 2

Alphabet == {"A", "B"}

KErrNone == "none"
KErrType == "TypeError"
KErrKey == "KeyError"
KErrAttr == "AttributeError"
KErrUnbound == "UnboundLocalError"

\* A Python object given as a sequence: a str (hashable) or a pandas Series / list
\* (a "row": hashing it raises TypeError)
StrItem(s) == [kind |-> "str", seq |-> s]
RowItem(s) == [kind |-> "row", seq |-> s]
Items(n) == {StrItem(s) : s \in Vectors(n, Alphabet)} \cup {RowItem(s) : s \in Vectors(n, Alphabet)}
Hashable(item) == item.kind = "str"

\* dict keys: an int label, or a str label
IntKey(n) == [kind |-> "int", n |-> n, s |-> <<>>]
StrKey(s) == [kind |-> "str", n |-> 0, s |-> s]

\* the key a hashable item is looked up under
KeyOf(item) == StrKey(item.seq)

\* the index labels a DataFrame of sequences can carry: the default integer index,
\* or a str label
Labels(n) == {IntKey(i) : i \in 0..(MaxTrainRows - 1)} \cup {StrKey([k \in 1..n |-> "A"])}

\* DataFrames of sequences given to train: up to MaxTrainRows rows, each a label
\* and a sequence, labels distinct
Frames(n) ==
    {f \in UNION {[1..k -> [label : Labels(n), seq : Vectors(n, Alphabet)]] : k \in 0..MaxTrainRows} :
        \A i, j \in 1..Len(f) : i # j => f[i].label # f[j].label}

\* DataFrames of sequences given to make_K: the default index 0, 1, ...
DefaultFrames(n) ==
    {f \in UNION {[1..k -> [label : {IntKey(i) : i \in 0..(MaxRows - 1)},
                            seq : Vectors(n, Alphabet)]] : k \in 0..MaxRows} :
        \A i \in 1..Len(f) : f[i].label = IntKey(i - 1)}

\* d[key] = value
DictSet(d, key, value) ==
    [k \in DOMAIN d \cup {key} |-> IF k = key THEN value ELSE d[k]]

EmptyDict == [k \in {} |-> <<>>]

\* iteration over a Python set, in some fixed order
RECURSIVE SetToSeq(_)
SetToSeq(S) ==
    IF S = {} THEN <<>>
    ELSE LET x == CHOOSE y \in S : TRUE IN <<x>> \o SetToSeq(S \ {x})

RECURSIVE Flatten(_)
Flatten(ss) == IF ss = <<>> THEN <<>> ELSE Head(ss) \o Flatten(Tail(ss))

\* sum of a sequence of numbers
RECURSIVE Sum(_)
Sum(xs) == IF xs = <<>> THEN 0 ELSE Head(xs) + Sum(Tail(xs))

\* StructureKernel.contacting_terms, lines 93-102; positions are 0-based
ContactingTerms(sample_space, contact_list) ==
    Flatten([c \in 1..Len(contact_list) |->
        LET first_pos == contact_list[c][1]
            second_pos == contact_list[c][2]
            first_possibilities == SetToSeq(sample_space[first_pos + 1])
            second_possibilities == SetToSeq(sample_space[second_pos + 1])
        IN  Flatten([a \in 1..Len(first_possibilities) |->
                [b \in 1..Len(second_possibilities) |->
                    << <<first_pos, first_possibilities[a]>>,
                       <<second_pos, second_possibilities[b]>> >>]])])

\* lines 154 and 182: seq[term[0][0]] == term[0][1] and seq[term[1][0]] == term[1][1]
HoldsTerm(seq, term) ==
    seq[term[1][1] + 1] = term[1][2] /\ seq[term[2][1] + 1] = term[2][2]

\* get_contacts, lines 180-184: the terms seq satisfies, in contact_terms order
ComputeContacts(terms, seq) ==
    SelectSeq(terms, LAMBDA t : HoldsTerm(seq, t))

\* StructureKernel.get_contacts, lines 172-184: self.contacts[seq] raises TypeError
\* for an unhashable seq (caught: the contacts are computed), KeyError for a
\* hashable seq that is no key (not caught)
GetContacts(terms, cache, item) ==
    IF ~Hashable(item)
      THEN [err |-> KErrNone, out |-> ComputeContacts(terms, item.seq)]
      ELSE IF KeyOf(item) \in DOMAIN cache
             THEN [err |-> KErrNone, out |-> cache[KeyOf(item)]]
             ELSE [err |-> KErrKey, out |-> <<>>]

\* c in contacts2
InList(c, list) == \E k \in 1..Len(list) : list[k] = c

\* StructureKernel.calc_kernel, lines 129-132
StructCalcKernel(terms, cache, seq1, seq2, var_p) ==
    LET contacts1 == GetContacts(terms, cache, seq1)
        contacts2 == GetContacts(terms, cache, seq2)
    IN  IF contacts1.err # KErrNone THEN [err |-> contacts1.err, out |-> 0]
        ELSE IF contacts2.err # KErrNone THEN [err |-> contacts2.err, out |-> 0]
        ELSE [err |-> KErrNone,
              out |-> Sum([k \in 1..Len(contacts1.out) |->
                           IF InList(contacts1.out[k], contacts2.out) THEN 1 ELSE 0]) * var_p]

\* StructureKernel.contacts_X_row, lines 152-159
ContactsXRow(terms, seq, var_p) ==
    [k \in 1..Len(terms) |-> var_p * (IF HoldsTerm(seq, terms[k]) THEN 1 ELSE 0)]

\* StructureKernel.make_contacts_X, lines 137-140
MakeContactsX(terms, seqs, var_p) ==
    [i \in 1..Len(seqs) |-> ContactsXRow(terms, seqs[i].seq, var_p)]

\* StructureKernel.make_K, lines 113-114: einsum('ij,jk->ik', var_p*X, X.T)
StructMakeK(terms, seqs, var_p) ==
    LET X == MakeContactsX(terms, seqs, 1)
    IN  [i \in 1..Len(seqs) |-> [k \in 1..Len(seqs) |->
            Sum([j \in 1..Len(terms) |-> (var_p * X[i][j]) * X[k][j]])]]

\* StructureKernel.train, lines 165-169, from row i (0-based) on. The test is on the
\* row NUMBER i, not on the row's label; its true branch is the Python 2 statement
\* print 'Attempting to rewrite contacts for' + i, str + int, which raises TypeError.
RECURSIVE StructTrainLoop(_, _, _, _)
StructTrainLoop(terms, cache, X_seqs, i) ==
    IF i >= Len(X_seqs) THEN [err |-> KErrNone, cache |-> cache]
    ELSE IF IntKey(i) \in DOMAIN cache
           THEN [err |-> KErrType, cache |-> cache]
           ELSE LET got == GetContacts(terms, cache, RowItem(X_seqs[i + 1].seq))
                IN  StructTrainLoop(terms,
                                    DictSet(cache, X_seqs[i + 1].label, got.out),
                                    X_seqs, i + 1)

\* HammingKernel.train, lines 60-64: the test reads self.contacts, an attribute a
\* HammingKernel does not have, in the first iteration
HammingTrainLoop(saved, X_seqs) ==
    IF Len(X_seqs) = 0 THEN [err |-> KErrNone, saved |-> saved]
    ELSE [err |-> KErrAttr, saved |-> saved]

\* number of positions at which the zipped sequences agree (line 34)
RECURSIVE ZipMatches(_, _)
ZipMatches(s1, s2) ==
    IF s1 = <<>> \/ s2 = <<>> THEN 0
    ELSE (IF Head(s1) = Head(s2) THEN 1 ELSE 0) + ZipMatches(Tail(s1), Tail(s2))

\* HammingKernel.calc_kernel, lines 26-34. "seq in self.saved_seqs" hashes seq
\* (TypeError for a row). s1 is bound only when seq1 is no saved key; s2 is
\* ''.join(seq1) when seq2 is no saved key, and seq2 otherwise.
HammingCalcKernel(saved, seq1, seq2, var_p) ==
    IF ~Hashable(seq1) THEN [err |-> KErrType, out |-> 0]
    ELSE LET s1_bound == KeyOf(seq1) \notin DOMAIN saved
             s1 == seq1.seq
         IN  IF ~Hashable(seq2) THEN [err |-> KErrType, out |-> 0]
             ELSE LET s2 == IF KeyOf(seq2) \notin DOMAIN saved THEN seq1.seq ELSE seq2.seq
                  IN  IF ~s1_bound THEN [err |-> KErrUnbound, out |-> 0]
                      ELSE [err |-> KErrNone, out |-> ZipMatches(s1, s2) * var_p]

\* HammingKernel.make_K, lines 46-54: calc_kernel on the rows seqs.loc[i] and
\* seqs.transpose()[j], both pandas Series; the first error ends the call
HammingMakeK(saved, seqs, var_p) ==
    LET cell(i, j) == HammingCalcKernel(saved, RowItem(seqs[i].seq), RowItem(seqs[j].seq), var_p)
        idx == 1..Len(seqs)
    IN  IF \E i, j \in idx : cell(i, j).err # KErrNone
          THEN [err |-> (CHOOSE e \in {cell(i, j).err : i, j \in idx} : e # KErrNone),
                out |-> <<>>]
          ELSE [err |-> KErrNone, out |-> [i \in idx |-> [j \in idx |-> cell(i, j).out]]]

\* the contacts lists and sample spaces a StructureKernel is constructed with
Positions == 0..(SeqLen - 1)
ContactLists ==
    UNION {[1..k -> {<<p, q>> \in Positions \X Positions : p < q}] : k \in 1..MaxContacts}
SampleSpaces == {[p \in 1..SeqLen |-> Alphabet], [p \in 1..SeqLen |-> IF p = 1 THEN {"A"} ELSE Alphabet]}

KNoCall == [op |-> "init", a |-> <<>>, b |-> <<>>, v |-> 0, out |-> <<>>, err |-> KErrNone]

\* HammingKernel.__init__ (lines 20-22) and StructureKernel.__init__ (lines 76-79)
InitKernel ==
    /\ saved_seqs = EmptyDict
    /\ contacts = EmptyDict
    /\ k_last = KNoCall
    /\ \E contact_list \in ContactLists : \E sample_space \in SampleSpaces :
          contact_terms = ContactingTerms(sample_space, contact_list)

StructTrain(X_seqs) ==
    /\ LET r == StructTrainLoop(contact_terms, contacts, X_seqs, 0)
       IN  /\ contacts' = r.cache
           /\ k_last' = [KNoCall EXCEPT !.op = "structure.train", !.err = r.err]
    /\ UNCHANGED <<saved_seqs, contact_terms, ffvars, mvars>>

StructCalc(seq1, seq2, var_p) ==
    /\ LET r == StructCalcKernel(contact_terms, contacts, seq1, seq2, var_p)
       IN  k_last' = [op |-> "structure.calc_kernel", a |-> seq1, b |-> seq2,
                      v |-> var_p, out |-> r.out, err |-> r.err]
    /\ UNCHANGED <<saved_seqs, contact_terms, contacts, ffvars, mvars>>

StructMake(seqs, var_p) ==
    /\ k_last' = [op |-> "structure.make_K", a |-> seqs, b |-> <<>>, v |-> var_p,
                  out |-> StructMakeK(contact_terms, seqs, var_p), err |-> KErrNone]
    /\ UNCHANGED <<saved_seqs, contact_terms, contacts, ffvars, mvars>>

StructGet(seq) ==
    /\ LET r == GetContacts(contact_terms, contacts, seq)
       IN  k_last' = [op |-> "structure.get_contacts", a |-> seq, b |-> <<>>, v |-> 0,
                      out |-> r.out, err |-> r.err]
    /\ UNCHANGED <<saved_seqs, contact_terms, contacts, ffvars, mvars>>

HammingTrain(X_seqs) ==
    /\ LET r == HammingTrainLoop(saved_seqs, X_seqs)
       IN  /\ saved_seqs' = r.saved
           /\ k_last' = [KNoCall EXCEPT !.op = "hamming.train", !.err = r.err]
    /\ UNCHANGED <<contact_terms, contacts, ffvars, mvars>>

HammingCalc(seq1, seq2, var_p) ==
    /\ LET r == HammingCalcKernel(saved_seqs, seq1, seq2, var_p)
       IN  k_last' = [op |-> "hamming.calc_kernel", a |-> seq1, b |-> seq2,
                      v |-> var_p, out |-> r.out, err |-> r.err]
    /\ UNCHANGED <<saved_seqs, contact_terms, contacts, ffvars, mvars>>

HammingMake(seqs, var_p) ==
    /\ LET r == HammingMakeK(saved_seqs, seqs, var_p)
       IN  k_last' = [op |-> "hamming.make_K", a |-> seqs, b |-> <<>>, v |-> var_p,
                      out |-> r.out, err |-> r.err]
    /\ UNCHANGED <<saved_seqs, contact_terms, contacts, ffvars, mvars>>

NextStructure ==
    \/ \E X_seqs \in Frames(SeqLen) : StructTrain(X_seqs)
    \/ \E seq1, seq2 \in Items(SeqLen) : \E var_p \in 1..MaxVar : StructCalc(seq1, seq2, var_p)
    \/ \E seqs \in DefaultFrames(SeqLen) : \E var_p \in 1..MaxVar : Len(seqs) > 0 /\ StructMake(seqs, var_p)
    \/ \E seq \in Items(SeqLen) : StructGet(seq)

NextHamming ==
    \/ \E X_seqs \in DefaultFrames(HamLen) : HammingTrain(X_seqs)
    \/ \E seq1, seq2 \in Items(HamLen) : \E var_p \in 1..MaxVar : HammingCalc(seq1, seq2, var_p)
    \/ \E seqs \in DefaultFrames(HamLen) : \E var_p \in 1..MaxVar : HammingMake(seqs, var_p)

NextFit ==
    \/ \E Y \in TrainYs : \E variances \in VarianceInputs : RegFit(Y, variances)
    \/ RegPredict
    \/ \E Y \in TrainYs : ClfFit(Y)
    \/ ClfPredict

\* regression targets: the numeric vectors of each length
RegYs == {TrainY(n, 0) : n \in (MaxN - 1)..MaxN}

\* a constructor call of one of the four model classes: 'objective' is a keyword
\* of the regressors, 'gamma' of LassoGPRegressor
NextConstruct ==
    \E cls \in {"GPRegressor", "GPClassifier", "GPMultiClassifier", "LassoGPRegressor"} :
    \E kw_objective \in ObjectiveArgs : \E guesses \in GuessInputs :
    \E kernel_n \in 1..MaxKernelHypers : \E kw_gamma \in GammaArgs :
       /\ cls \in {"GPClassifier", "GPMultiClassifier"} => kw_objective = None
       /\ cls # "LassoGPRegressor" => kw_gamma = None
       /\ Construct(cls, kw_objective, guesses, kernel_n, kw_gamma)

\* construction of the four model classes, fit, score, dump and load
NextApi ==
    \/ NextConstruct
    \/ \E Y \in RegYs : \E variances \in VarianceInputs : RegFit(Y, variances)
    \/ \E Y \in TrainYs : ClfFit(Y)
    \/ \E Y \in RegYs : MultiFit(Y)
    \/ \E args \in MetricLists : \E same_len \in BOOLEAN : RegScore(args, same_len)
    \/ Dump
    \/ LoadDumped

\* fit, predict and score of a constructed GPRegressor, GPClassifier or
\* LassoGPRegressor
NextUse ==
    \/ \E Y \in RegYs : \E variances \in VarianceInputs : RegFit(Y, variances)
    \/ \E Y \in RegYs : ClfFit(Y)
    \/ \E Y \in RegYs : \E variances \in VarianceInputs : LassoFit(Y, variances)
    \/ RegPredict
    \/ ClfPredict
    \/ LassoPredict
    \/ \E args \in {a \in MetricLists : Len(a) <= 1} : \E same_len \in BOOLEAN :
          RegScore(args, same_len)
    \/ \E same_len \in BOOLEAN : ClfScore(same_len)

Init == InitFindF /\ InitFit /\ InitKernel

Next == NextFindF \/ NextFit \/ NextStructure \/ NextHamming \/ NextApi \/ NextUse

Spec == Init /\ [][Next]_vars

\* the parts of the state a specification does not exercise stay as constructed
InitOfFindF ==
    /\ m = NewModel("GPRegressor", "_log_ML", None, 1)
    /\ last = NoCall
    /\ saved_seqs = EmptyDict
    /\ contact_terms = <<>>
    /\ contacts = EmptyDict
    /\ k_last = KNoCall
    /\ InitFindF

InitOfFit ==
    /\ ff_kind = "binary"
    /\ ff_i = 0
    /\ n_below = 0
    /\ ff_status = "running"
    /\ ff_ret = "none"
    /\ ff_streak = 0
    /\ ff_ever10 = FALSE
    /\ saved_seqs = EmptyDict
    /\ contact_terms = <<>>
    /\ contacts = EmptyDict
    /\ k_last = KNoCall
    /\ InitFit

InitOfKernel ==
    /\ ff_kind = "binary"
    /\ ff_i = 0
    /\ n_below = 0
    /\ ff_status = "running"
    /\ ff_ret = "none"
    /\ ff_streak = 0
    /\ ff_ever10 = FALSE
    /\ m = NewModel("GPRegressor", "_log_ML", None, 1)
    /\ last = NoCall
    /\ InitKernel

InitOfHamming ==
    /\ ff_kind = "binary"
    /\ ff_i = 0
    /\ n_below = 0
    /\ ff_status = "running"
    /\ ff_ret = "none"
    /\ ff_streak = 0
    /\ ff_ever10 = FALSE
    /\ m = NewModel("GPRegressor", "_log_ML", None, 1)
    /\ last = NoCall
    /\ contact_terms = <<>>
    /\ contacts = EmptyDict
    /\ saved_seqs = EmptyDict
    /\ k_last = KNoCall

InitOfApi ==
    /\ ff_kind = "binary"
    /\ ff_i = 0
    /\ n_below = 0
    /\ ff_status = "running"
    /\ ff_ret = "none"
    /\ ff_streak = 0
    /\ ff_ever10 = FALSE
    /\ saved_seqs = EmptyDict
    /\ contact_terms = <<>>
    /\ contacts = EmptyDict
    /\ k_last = KNoCall
    /\ m = NoModel
    /\ last = NoCall

\* the models NextUse works on: constructed without guesses
InitUse ==
    /\ \E cls \in {"GPRegressor", "GPClassifier", "LassoGPRegressor"} :
       \E objective \in {Some("log_ML"), Some("LOO_log_p")} :
       \E kernel_n \in 1..MaxKernelHypers : \E kw_gamma \in GammaArgs :
          /\ cls = "GPClassifier" => objective = Some("log_ML")
          /\ cls # "LassoGPRegressor" => kw_gamma = None
          /\ m = IF cls = "GPClassifier"
                   THEN NewClassifier(cls, None, kernel_n).m
                   ELSE NewRegressor(cls, Some(objective), None, kernel_n, kw_gamma).m
    /\ last = NoCall

InitOfUse ==
    /\ ff_kind = "binary"
    /\ ff_i = 0
    /\ n_below = 0
    /\ ff_status = "running"
    /\ ff_ret = "none"
    /\ ff_streak = 0
    /\ ff_ever10 = FALSE
    /\ saved_seqs = EmptyDict
    /\ contact_terms = <<>>
    /\ contacts = EmptyDict
    /\ k_last = KNoCall
    /\ InitUse

SpecFindF == InitOfFindF /\ [][NextFindF]_vars

SpecFit == InitOfFit /\ [][NextFit]_vars

SpecStructure == InitOfKernel /\ [][NextStructure]_vars

SpecHamming == InitOfHamming /\ [][NextHamming]_vars

SpecConstruct == InitOfApi /\ [][NextConstruct]_vars

SpecApi == InitOfApi /\ [][NextApi]_vars

SpecUse == InitOfUse /\ [][NextUse]_vars

\* the hyperparameter count a fit needs: the kernel's, plus the noise slot for a
\* regressor fitted without per-point variances
RequiredCount(cls, kernel_n, variances) ==
    IF cls = "GPRegressor" /\ variances = None THEN kernel_n + 1 ELSE kernel_n

\* C1: GPRegressor.fit raises the length-mismatch error exactly when variances is
\* supplied with a length other than len(Y); variances of the right length (all
\* zero included) raise no such error and the fit goes on to the optimiser.
C1_VarianceLengthErrorIffMismatch ==
    (last.op = "fit" /\ m.cls = "GPRegressor") =>
        /\ (last.err = ErrVarLen) <=>
              (last.var_in # None /\ Len(last.var_in[1]) # Len(m.Y))
        /\ (last.var_in # None /\ Len(last.var_in[1]) = Len(m.Y) /\ ~GuessesRejected(m))
              => last.x0 # None

\* C2: after every successful fit the cached quantities predict reads are the ones
\* computed at the stored hyperparameter vector, whatever points the optimiser
\* evaluated and whichever it returned.
C2_CacheAtStoredHypers ==
    (last.op = "fit" /\ last.err = ErrNone) =>
        /\ m.K_at = m.hypers
        /\ m.cache_at = m.hypers
        /\ m.ML_at = m.hypers

\* C3: GPRegressor.predict gives the kernel the hyperparameters the fitted K is
\* built with: the fitted vector without its noise slot when fit had no variances,
\* the whole fitted vector when it had.
C3_PredictUsesKernelHypers ==
    (last.op = "predict" /\ last.err = ErrNone /\ m.cls = "GPRegressor") =>
        last.p_h = Some(IF m.variances = None THEN Tail(m.hypers) ELSE m.hypers)

\* C4: a fit (whose variances, if any, have the right length) raises the
\* configuration error exactly when supplied guesses differ in length from the
\* required count; without guesses the optimiser starts on a vector of the
\* required count.
C4_GuessesErrorIffWrongLength ==
    (last.op = "fit" /\ (last.var_in = None \/ Len(last.var_in[1]) = Len(m.Y))) =>
        LET need == RequiredCount(m.cls, m.kernel_n, last.var_in)
        IN  /\ (last.err = ErrGuesses) <=>
                  (m.guesses # None /\ Len(m.guesses[1]) # need)
            /\ (m.guesses = None) =>
                  (last.x0 # None /\ Len(last.x0[1]) = need)

\* C5: GPClassifier.fit on labels outside {-1, +1} is rejected with the
\* invalid-label error before any Newton iteration or factorization of that fit.
C5_InvalidLabelsRejectedEagerly ==
    (last.op = "fit" /\ m.cls = "GPClassifier" /\ ~GuessesRejected(m)
       /\ ~ValidLabels(m.Y)) =>
        (last.err = ErrLabels /\ ~last.newton /\ ~last.factor)

\* the number of positions at which two equal-length sequences hold the same symbol
Agreements(s1, s2) == Cardinality({i \in 1..Len(s1) : s1[i] = s2[i]})

\* the number of contact terms (counted as listed) that both sequences satisfy
SharedTerms(terms, s1, s2) ==
    Cardinality({k \in 1..Len(terms) : HoldsTerm(s1, terms[k]) /\ HoldsTerm(s2, terms[k])})

\* C6: GPClassifier._find_F returns exactly at the first iteration that completes
\* ten consecutive below-tolerance iterations (the count restarting at every other
\* iteration), never before the tenth iteration, never runs more than 1000
\* iterations, and raises the non-convergence error iff no run of ten occurred
\* within the 1000 iterations.
C6_FindFReturnsAtFirstRunOfTen ==
    ff_kind = "binary" =>
        /\ ff_i <= Evals
        /\ ff_status = "running" => (~ff_ever10 /\ ff_streak < RunLength /\ ff_i < Evals)
        /\ ff_status = "returned" =>
              /\ ff_streak = RunLength
              /\ ff_i >= RunLength
              /\ ff_ret = "f_new"
        /\ ff_status = "raised" => (ff_i = Evals /\ ~ff_ever10)
        /\ (ff_i = Evals /\ ~ff_ever10) => ff_status = "raised"
        /\ ff_ever10 => ff_status = "returned"

\* a return after the count was restarted at least once
C6_Witness ==
    /\ ff_kind = "binary"
    /\ ff_status = "returned"
    /\ ff_i > RunLength
    /\ ff_i < Evals

\* C7: when GPMultiClassifier._find_F spends its 1000 iterations without ten
\* consecutive below-tolerance iterations it fails with a non-convergence error
\* instead of returning a latent mode.
C7_MultiRaisesOnExhaustion ==
    (ff_kind = "multi" /\ ff_i = Evals /\ ~ff_ever10) => ff_status = "raised"

\* C8: a train call never raises and never changes an entry the cache already
\* holds: every key cached before the call is cached after it with the same value.
C8_TrainKeepsCachedEntries ==
    [][ k_last'.op = "structure.train" =>
          /\ k_last'.err = KErrNone
          /\ \A k \in DOMAIN contacts :
                k \in DOMAIN contacts' /\ contacts'[k] = contacts[k] ]_vars

\* C9: HammingKernel.calc_kernel(s1, s2, v) on two strings of equal length is v
\* times the number of positions at which they hold the same symbol.
C9_HammingCountsAgreements ==
    (k_last.op = "hamming.calc_kernel" /\ Hashable(k_last.a) /\ Hashable(k_last.b)) =>
        /\ k_last.err = KErrNone
        /\ k_last.out = k_last.v * Agreements(k_last.a.seq, k_last.b.seq)

\* C10: StructureKernel.calc_kernel(s1, s2, v) and entry (i, j) of make_K both are
\* v times the number of contact terms satisfied by both items.
C10_StructureCountsSharedTerms ==
    /\ k_last.op = "structure.calc_kernel" =>
          /\ k_last.err = KErrNone
          /\ k_last.out = k_last.v * SharedTerms(contact_terms, k_last.a.seq, k_last.b.seq)
    /\ k_last.op = "structure.make_K" =>
          /\ k_last.err = KErrNone
          /\ \A i, j \in 1..Len(k_last.a) :
                k_last.out[i][j] =
                    k_last.v * SharedTerms(contact_terms, k_last.a[i].seq, k_last.a[j].seq)

\* C11: constructing a GPRegressor with an objective name other than 'log_ML' or
\* 'LOO_log_p' raises the configuration error and yields no model, and no other
\* construction raises; with the objective absent or None the objective is
\* _log_ML, and with a valid name it is the method the name denotes.
C11_ObjectiveBoundOrRejected ==
    (last.op = "__init__" /\ last.args[1] = "GPRegressor") =>
        LET kw == last.args[2]
            named == kw # None /\ kw[1] # None
            unknown == named /\ kw[1][1] \notin {"log_ML", "LOO_log_p"}
        IN  /\ unknown <=> (last.err = ErrObjective)
            /\ unknown <=> (m = NoModel)
            /\ last.err \in {ErrNone, ErrObjective}
            /\ ~named => m.objective = "_log_ML"
            /\ (named /\ kw[1][1] = "log_ML") => m.objective = "_log_ML"
            /\ (named /\ kw[1][1] = "LOO_log_p") => m.objective = "_LOO_log_p"

\* a GPRegressor construction rejected for its objective name
C11_Witness ==
    /\ last.op = "__init__"
    /\ last.args[1] = "GPRegressor"
    /\ last.err = ErrObjective
    /\ m = NoModel

\* C12: a score call with supported metric names that returns gives the rank
\* correlation for no metric, a scalar for exactly one, and for two or more
\* requested metrics (repeated names included) a mapping with an entry for each
\* requested name.
C12_ScoreShapeFollowsArgCount ==
    (last.op = "score" /\ last.err = ErrNone) =>
        LET n == Len(last.args)
        IN  /\ n = 0 => last.ret = Some(Scalar("kendalltau"))
            /\ n = 1 => last.ret = Some(Scalar(last.args[1]))
            /\ n >= 2 => last.ret = Some(Mapping({last.args[k] : k \in 1..n}))

\* C13: load of the file a model was dumped to succeeds and yields a model of the
\* same class with the same objective, hyperparameters and other attributes.
C13_LoadRestoresDumpedModel ==
    last.op = "load" => (last.err = ErrNone /\ last.ret = Some(m))

\* C14: after a LassoGPRegressor.fit that completed, the stored mask and the inner
\* regressor's fitted state are those of the evaluation at the stored gamma.
C14_LassoStateAtStoredGamma ==
    (last.op = "fit" /\ last.err = ErrNone /\ m.cls = "LassoGPRegressor") =>
        (m.mask_at = m.gamma /\ m.fit_g = m.gamma)

\* C15: a predict or score call, returning or raising, leaves every attribute of
\* the model as it was.
C15_PredictAndScoreReadOnly ==
    [][ last'.op \in {"predict", "score"} => m' = m ]_vars

\* a score call has returned on a LassoGPRegressor whose fit completed
C15_Witness ==
    /\ last.op = "score"
    /\ last.err = ErrNone
    /\ m.cls = "LassoGPRegressor"
    /\ m.gamma # None

\* C16: a fit call on a fitted model that is rejected for the length of variances
\* or of guesses leaves every attribute of the model as it was.
C16_RejectedFitKeepsFittedState ==
    [][ (last'.op = "fit" /\ last'.err \in {ErrVarLen, ErrGuesses} /\ "hypers" \in m.has)
          => m' = m ]_vars

\* C17: on a GPClassifier constructed with only a kernel and fitted successfully,
\* predict raises no error.
C17_ClassifierPredictReturns ==
    (last.op = "predict" /\ m.cls = "GPClassifier" /\ m.guesses = None
       /\ "hypers" \in m.has) => last.err = ErrNone

\* C18: get_contacts(item) raises no error and returns the cached entry when item
\* is a registered key, otherwise the terms the item satisfies.
C18_GetContactsTotal ==
    k_last.op = "structure.get_contacts" =>
        /\ k_last.err = KErrNone
        /\ k_last.out =
              IF Hashable(k_last.a) /\ KeyOf(k_last.a) \in DOMAIN contacts
                THEN contacts[KeyOf(k_last.a)]
                ELSE ComputeContacts(contact_terms, k_last.a.seq)

====
